---- MODULE Spec2Model ----
(***************************************************************************)
(* Model of the code-review pipeline of nagisheshero11/codex:              *)
(*   static_agent.py   - syntax check, complexity estimate, semantic       *)
(*                       analyzer, code-smell detector, aggregator         *)
(*   security_agent.py - security scan (de-duplication and severity sort)  *)
(*   main.py           - the /review handler                               *)
(*                                                                         *)
(* A source text is modelled by what the analyzers read of it: whether it  *)
(* compiles, the indentation flags of its raw lines, and its syntax tree.  *)
(* A syntax tree is the sequence of its nodes in depth-first pre-order,    *)
(* each node carrying its nesting level below the module (0 = a statement  *)
(* of the module body); the position of a node in the sequence stands for  *)
(* its line number.                                                        *)
(***************************************************************************)
EXTENDS Integers, Sequences, FiniteSets, TLC

VARIABLES
    code,             \* the SourceUnit under analysis
    pc,               \* position of the run in review_code / run_static_analysis
    calls,            \* the functions invoked so far in this run
    syntax,           \* result of check_syntax_and_indentation
    algo,             \* result of estimate_big_o_complexity
    semantics,        \* result of analyze_semantics
    smells,           \* result of detect_code_smells
    delegated,        \* results of the delegated tools (flake8, radon)
    static_results,   \* report returned by run_static_analysis
    security_results, \* result of scan_security_issues
    response,         \* value returned by review_code
    collected,        \* all_issues, the issues collected by scan_security_issues
    previous,         \* result of an earlier analyze_semantics of the same text
    scans,            \* the run_bandit_scan calls in flight, one per request
    temp_scan,        \* the file "temp_scan.py" of the working directory
    tmp_files         \* the files of tempfile.NamedTemporaryFile, by name

\* The variables that only the security scanner and repeated or concurrent
\* requests touch.
others == <<collected, previous, scans, temp_scan, tmp_files>>

vars == <<code, pc, calls, syntax, algo, semantics, smells, delegated,
          static_results, security_results, response, others>>

-----------------------------------------------------------------------------
(* Bounds of the model.                                                    *)

MaxNodesBigO == 4
MaxNodesSem == 3
MaxNodesSmell == 4
MaxNodesRun == 2
MaxLines == 1
MaxRequests == 2
MaxIssues == 3

-----------------------------------------------------------------------------
(* Python values of ast.Constant nodes: a type tag and an integer payload. *)

PyBool(b) == [t |-> "bool", v |-> IF b THEN 1 ELSE 0]
PyInt(n) == [t |-> "int", v |-> n]
PyFloat(n) == [t |-> "float", v |-> n]
PyStr == [t |-> "str", v |-> 0]
PyNone == [t |-> "NoneType", v |-> 0]
NoValue == [t |-> "", v |-> 0]

IsNumber(x) == x.t \in {"bool", "int", "float"}

\* Python's ==: bool, int and float compare by numeric value (True == 1).
PyEq(x, y) ==
    IF IsNumber(x) /\ IsNumber(y) THEN x.v = y.v
    ELSE x.t = y.t /\ x.v = y.v

Abs(n) == IF n < 0 THEN -n ELSE n

-----------------------------------------------------------------------------
(* Syntax-tree nodes.                                                      *)

StmtOnlyKinds == {"FunctionDef", "ClassDef", "For", "While", "If", "Assign", "Pass"}
ExprKinds == {"Call", "ListComp", "SetComp", "DictComp", "Name", "Constant"}
BlockKinds == {"FunctionDef", "ClassDef", "For", "While", "If"}

\* A node: kind; lvl (nesting level); name (function/class name, called name,
\* variable id); func (kind of a Call's func expression); val (value of a
\* Constant, test of an If); defaults / kw_defaults (kinds of a function's
\* default expressions); targets (of an Assign); rep (the node stands for
\* rep consecutive identical copies of its subtree).
Node(kind, name, func, val, defaults, kw_defaults, targets, rep) ==
    [kind |-> kind, lvl |-> 0, name |-> name, func |-> func, val |-> val,
     defaults |-> defaults, kw_defaults |-> kw_defaults, targets |-> targets,
     rep |-> rep]

Simple(kind) == Node(kind, "", "", NoValue, <<>>, <<>>, <<>>, 1)
FunctionDef(name, defaults, kw_defaults) ==
    Node("FunctionDef", name, "", NoValue, defaults, kw_defaults, <<>>, 1)
ClassDef(name) == Node("ClassDef", name, "", NoValue, <<>>, <<>>, <<>>, 1)
If(test, rep) == Node("If", "", "", test, <<>>, <<>>, <<>>, rep)
Assign(targets) == Node("Assign", "", "", NoValue, <<>>, <<>>, targets, 1)
Call(func, name) == Node("Call", name, func, NoValue, <<>>, <<>>, <<>>, 1)
Name(id) == Node("Name", id, "", NoValue, <<>>, <<>>, <<>>, 1)
Constant(value) == Node("Constant", "", "", value, <<>>, <<>>, <<>>, 1)
Pass(rep) == Node("Pass", "", "", NoValue, <<>>, <<>>, <<>>, rep)

\* The test of an If that is no Constant node (a comparison, a name, a call).
ExprTest == [t |-> "expr", v |-> 0]

\* Assignment targets: a plain name, a tuple of names, an attribute.
NameTarget(id) == [kind |-> "Name", ids |-> <<id>>]
TupleTarget(ids) == [kind |-> "Tuple", ids |-> ids]
AttributeTarget == [kind |-> "Attribute", ids |-> <<>>]

-----------------------------------------------------------------------------
(* Tree structure over the pre-order sequence.                             *)

RECURSIVE SetToSeq(_)
SetToSeq(S) ==
    IF S = {} THEN <<>>
    ELSE LET m == CHOOSE x \in S : \A y \in S : x <= y
         IN <<m>> \o SetToSeq(S \ {m})

Range(s) == {s[i] : i \in 1..Len(s)}

\* Proper descendants of node i.
Sub(t, i) == {j \in (i+1)..Len(t) : \A k \in (i+1)..j : t[k].lvl > t[i].lvl}

\* ast.iter_child_nodes(node), as positions in source order.
Children(t, i) == {j \in Sub(t, i) : t[j].lvl = t[i].lvl + 1}

\* Body of the module.
TopLevel(t) == {j \in 1..Len(t) : t[j].lvl = 0}

Ancestors(t, j) == {i \in 1..(j-1) : j \in Sub(t, i)}

\* ast.walk(node): the node and its descendants, breadth first.
RECURSIVE WalkLevels(_, _, _)
WalkLevels(t, S, l) ==
    IF \A j \in S : t[j].lvl < l THEN <<>>
    ELSE SetToSeq({j \in S : t[j].lvl = l}) \o WalkLevels(t, S, l + 1)

Walk(t, i) == WalkLevels(t, {i} \cup Sub(t, i), t[i].lvl)
WalkModule(t) == WalkLevels(t, 1..Len(t), 0)

-----------------------------------------------------------------------------
(* The inputs: every well-formed tree over a set of node templates.        *)

CanHaveChild(pk, ck) ==
    \/ pk \in BlockKinds
    \/ pk = "Assign" /\ ck \in ExprKinds
    \/ pk \in {"Call", "ListComp", "SetComp", "DictComp"} /\ ck \in ExprKinds

\* The node a new last node at level l would hang under (0: the module).
ParentAt(t, l) ==
    IF l = 0 THEN 0
    ELSE CHOOSE i \in 1..Len(t) :
            /\ t[i].lvl = l - 1
            /\ \A k \in (i+1)..Len(t) : t[k].lvl >= l

NeedsChild(n) == n.kind \in BlockKinds \cup {"Assign"}

CanAttach(t, nd, l) ==
    /\ l <= (IF t = <<>> THEN 0 ELSE t[Len(t)].lvl + 1)
    \* a block is given its body, an assignment its value, at once
    /\ (t # <<>> /\ NeedsChild(t[Len(t)])) => l = t[Len(t)].lvl + 1
    /\ l > 0 =>
         LET p == ParentAt(t, l)
         IN /\ CanHaveChild(t[p].kind, nd.kind)
            \* an Assign has one value
            /\ t[p].kind = "Assign" => Children(t, p) = {}
            \* a run of copies holds only plain statements and conditionals
            /\ (\E a \in Ancestors(t, p) \cup {p} : t[a].rep > 1)
                   => nd.kind \in {"Pass", "If"}

\* Every block has a body and every assignment a value.
WellFormed(t) ==
    \A i \in 1..Len(t) : NeedsChild(t[i]) => Children(t, i) # {}

\* A SourceUnit: ok (it compiles), errline (line the parser reports, 0 when
\* it reports none), lines (per raw line: starts with a space, holds a tab),
\* tree (its syntax tree when it compiles).
Source(ok, errline, lines, tree) ==
    [ok |-> ok, errline |-> errline, lines |-> lines, tree |-> tree]

Line(sp, tab) == [sp |-> sp, tab |-> tab]

\* The raw texts of up to n lines, and a text of one plain line.
Texts(n) == UNION {[1..k -> {Line(sp, tab) : sp, tab \in BOOLEAN}] : k \in 0..n}
PlainText == {<<Line(FALSE, FALSE)>>}

\* The texts before any node of the tree is written: those that compile, and
\* those that do not (they have a line at least; the parser reports a line
\* or none).
Blank(texts) ==
    {Source(TRUE, 0, ls, <<>>) : ls \in texts}
    \cup {Source(FALSE, e, ls, <<>>) : e \in {0, 1}, ls \in {x \in texts : x # <<>>}}

-----------------------------------------------------------------------------
(* static_agent.py: estimate_big_o_complexity                              *)

IsLoop(n) == n.kind \in {"For", "While"}

Counters0 ==
    [loops |-> 0, nested |-> 0, recursions |-> 0, comp |-> 0, sorts |-> 0,
     details |-> <<>>]

Evidence(what, line, depth, name) ==
    [what |-> what, line |-> line, depth |-> depth, name |-> name]

\* Mutant: the recursion scan tests the call's func for ast.Attribute.
RECURSIVE CountRecursionAttr(_, _, _, _)
CountRecursionAttr(t, fname, w, acc) ==
    IF w = <<>> THEN acc
    ELSE LET inner == t[Head(w)]
             a == IF inner.kind = "Call" /\ inner.func = "Attribute" /\ inner.name = fname
                  THEN [acc EXCEPT !.recursions = @ + 1]
                  ELSE acc
         IN CountRecursionAttr(t, fname, Tail(w), a)

\* for inner in ast.walk(node): count the calls of a plain name equal to the
\* function's name.
RECURSIVE CountRecursion(_, _, _, _)
CountRecursion(t, fname, w, acc) ==
    IF w = <<>> THEN acc
    ELSE LET inner == t[Head(w)]
             a == IF inner.kind = "Call" /\ inner.func = "Name" /\ inner.name = fname
                  THEN [acc EXCEPT !.recursions = @ + 1,
                                   !.details = Append(@, Evidence("Recursive call", Head(w), 0, fname))]
                  ELSE acc
         IN CountRecursion(t, fname, Tail(w), a)

\* Depth handed to the children of a node visited at `depth`.
ChildDepth(n, depth) == depth + (IF IsLoop(n) THEN 1 ELSE depth)

RECURSIVE visit(_, _, _, _)
RECURSIVE VisitAll(_, _, _, _)
visit(t, i, depth, acc) ==
    LET n == t[i]
        a1 == IF IsLoop(n)
              THEN [acc EXCEPT !.loops = @ + 1,
                               !.nested = IF depth > 0 THEN @ + 1 ELSE @,
                               !.details = Append(@, Evidence("Loop", i, depth + 1, ""))]
              ELSE acc
        a2 == IF n.kind = "ListComp"
              THEN [a1 EXCEPT !.comp = @ + 1,
                              !.details = Append(@, Evidence("List comprehension", i, 0, ""))]
              ELSE a1
        a3 == IF n.kind = "Call" /\ n.func = "Attribute" /\ n.name \in {"sort", "sorted"}
              THEN [a2 EXCEPT !.sorts = @ + 1,
                              !.details = Append(@, Evidence("Sorting detected", i, 0, ""))]
              ELSE a2
        a4 == IF n.kind = "FunctionDef"
              THEN CountRecursion(t, n.name, Walk(t, i), a3)
              ELSE a3
    IN VisitAll(t, SetToSeq(Children(t, i)), ChildDepth(n, depth), a4)

VisitAll(t, cs, depth, acc) ==
    IF cs = <<>> THEN acc
    ELSE VisitAll(t, Tail(cs), depth, visit(t, Head(cs), depth, acc))

\* visit(tree): the Module node is no loop, its children are visited at 0 + 0.
Counters(t) == VisitAll(t, SetToSeq(TopLevel(t)), 0, Counters0)

\* Mutant: one nested loop is enough for the quadratic label.
BigOTimeNested1(c) ==
    IF c.recursions > 0 THEN "O(n^rec)"
    ELSE IF c.nested >= 1 THEN "O(n^2)"
    ELSE IF c.loops > 0 /\ c.sorts > 0 THEN "O(n log n)"
    ELSE IF c.loops = 1 THEN "O(n)"
    ELSE IF c.comp > 0 THEN "O(n)"
    ELSE "O(1)"

BigOTime(c) ==
    IF c.recursions > 0 THEN "O(n^rec)"
    ELSE IF c.nested >= 2 THEN "O(n^2)"
    ELSE IF c.loops > 0 /\ c.sorts > 0 THEN "O(n log n)"
    ELSE IF c.loops = 1 THEN "O(n)"
    ELSE IF c.comp > 0 THEN "O(n)"
    ELSE "O(1)"

\* Mutant: the space label forgets the comprehensions.
BigOSpaceLoopsOnly(c) ==
    IF c.loops > 0 THEN "O(n)"
    ELSE IF c.recursions > 0 THEN "O(recursion depth)"
    ELSE "O(1)"

BigOSpace(c) ==
    IF c.comp > 0 \/ c.loops > 0 THEN "O(n)"
    ELSE IF c.recursions > 0 THEN "O(recursion depth)"
    ELSE "O(1)"

NoAlgo == [estimate |-> "", space |-> "", details |-> <<>>]

estimate_big_o_complexity(src) ==
    IF ~src.ok
    THEN [estimate |-> "Unknown", space |-> "Unknown", details |-> <<>>]
    ELSE LET c == Counters(src.tree)
         IN [estimate |-> BigOTime(c), space |-> BigOSpace(c), details |-> c.details]

-----------------------------------------------------------------------------
(* Specification of the complexity estimator alone.                        *)

BigONodes ==
    {FunctionDef("f", <<>>, <<>>), Simple("For"), Simple("While"),
     If(ExprTest, 1), Simple("ListComp"),
     Call("Name", "f"), Call("Attribute", "sort"), Call("Attribute", "f")}

NoSyntax == [syntax_issues |-> <<>>, fatal |-> FALSE]
NoSemantics == <<>>
NoSmells == <<>>
NoDelegated == [pending |-> TRUE]
NoReport == [pending |-> TRUE]
NoScans == <<>>
NoFile == "absent"
TempNames == 1..MaxRequests
NoTempFiles == [n \in TempNames |-> NoFile]

Idle(inputs) ==
    /\ code \in inputs
    /\ pc = "edit"
    /\ calls = {}
    /\ syntax = NoSyntax
    /\ algo = NoAlgo
    /\ semantics = NoSemantics
    /\ smells = NoSmells
    /\ delegated = NoDelegated
    /\ static_results = NoReport
    /\ security_results = NoReport
    /\ response = [status |-> 0]
    /\ collected = <<>>
    /\ previous = NoSemantics
    /\ scans = NoScans
    /\ temp_scan = NoFile
    /\ tmp_files = NoTempFiles

\* The user writes one more node of a text that compiles (the code editor of
\* the front end).
Compose(U, n) ==
    /\ pc = "edit"
    /\ code.ok
    /\ Len(code.tree) < n
    /\ \E nd \in U, l \in 0..Len(code.tree) :
          /\ CanAttach(code.tree, nd, l)
          /\ code' = [code EXCEPT !.tree = Append(@, [nd EXCEPT !.lvl = l])]
    /\ UNCHANGED <<others, pc, calls, syntax, algo, semantics, smells, delegated,
                   static_results, security_results, response>>

\* The text is complete: it does not compile, or its tree is well formed.
Complete == code.ok => WellFormed(code.tree)

InitBigO == Idle(Blank(PlainText))

ComposeBigO == Compose(BigONodes, MaxNodesBigO)

EstimateBigO ==
    /\ pc = "edit"
    /\ Complete
    /\ algo' = estimate_big_o_complexity(code)
    /\ calls' = calls \cup {"estimate_big_o_complexity"}
    /\ pc' = "done"
    /\ UNCHANGED <<others, code, syntax, semantics, smells, delegated, static_results,
                   security_results, response>>

NextBigO == ComposeBigO \/ EstimateBigO

SpecBigO == InitBigO /\ [][NextBigO]_vars

\* What the claims say of a tree, read off its shape.
HasNestedLoop(t) ==
    \E i \in 1..Len(t) : IsLoop(t[i]) /\ \E j \in Sub(t, i) : IsLoop(t[j])

HasSelfRecursion(t) ==
    \E i \in 1..Len(t) :
        /\ t[i].kind = "FunctionDef"
        /\ \E j \in Sub(t, i) :
              t[j].kind = "Call" /\ t[j].func = "Name" /\ t[j].name = t[i].name

Estimated == pc = "done" /\ code.ok /\ "estimate_big_o_complexity" \in calls

\* C3: every parseable input with a loop nested inside another loop and no
\* self-recursive call is estimated time "O(n^2)" and space "O(n)".
\* (Violated: two levels of nesting give nested = 1 and the label "O(1)".)
C3_NestedLoopIsQuadratic ==
    (Estimated /\ HasNestedLoop(code.tree) /\ ~HasSelfRecursion(code.tree))
        => (algo.estimate = "O(n^2)" /\ algo.space = "O(n)")

\* The table of the time label, row by row; compRow is the condition of the
\* comprehension row.
TimeTable(c, compRow) ==
    IF c.recursions > 0 THEN "O(n^rec)"
    ELSE IF c.nested >= 2 THEN "O(n^2)"
    ELSE IF c.loops > 0 /\ c.sorts > 0 THEN "O(n log n)"
    ELSE IF c.loops = 1 /\ c.nested = 0 THEN "O(n)"
    ELSE IF compRow THEN "O(n)"
    ELSE "O(1)"

\* C4 as claimed: the time label follows the first-match table whose fifth
\* row is "comp > 0 with no loops".
C4_TimeTableNoLoops ==
    Estimated =>
        LET c == Counters(code.tree)
        IN algo.estimate = TimeTable(c, c.comp > 0 /\ c.loops = 0)

\* C4 amended: the time label follows the first-match table whose fifth row
\* is "comp > 0", whatever the number of loops: recursions > 0 -> O(n^rec);
\* nested >= 2 -> O(n^2); loops > 0 and sorts > 0 -> O(n log n); exactly one
\* loop and no nesting -> O(n); comp > 0 -> O(n); otherwise O(1).
C4_TimeTable ==
    Estimated =>
        LET c == Counters(code.tree)
        IN algo.estimate = TimeTable(c, c.comp > 0)

\* Two loops, a comprehension, no sort: the fifth row decides.
C4_Witness ==
    /\ Estimated
    /\ LET c == Counters(code.tree)
       IN c.loops >= 2 /\ c.comp > 0 /\ c.sorts = 0 /\ c.recursions = 0
    /\ algo.estimate = "O(n)"

\* C5: the space label is "O(n)" when comp > 0 or loops > 0, else
\* "O(recursion depth)" when recursions > 0, else "O(1)"; nested and sorts
\* play no part.
C5_SpaceTable ==
    Estimated =>
        LET c == Counters(code.tree)
        IN /\ (c.comp > 0 \/ c.loops > 0) <=> algo.space = "O(n)"
           /\ (c.comp = 0 /\ c.loops = 0 /\ c.recursions > 0)
                 <=> algo.space = "O(recursion depth)"
           /\ (c.comp = 0 /\ c.loops = 0 /\ c.recursions = 0)
                 <=> algo.space = "O(1)"

\* A comprehension and a sort call, no loop: "O(n)" rests on comp alone.
C5_Witness ==
    /\ Estimated
    /\ LET c == Counters(code.tree)
       IN c.comp > 0 /\ c.loops = 0 /\ c.sorts > 0
    /\ algo.space = "O(n)"

-----------------------------------------------------------------------------
(* static_agent.py: SemanticAnalyzer, analyze_semantics                    *)

\* A finding of the semantic analyzer or of the smell detector: line (0: the
\* finding carries none), what it reports, the name and the number its
\* message holds.
Finding(line, what, name, n) ==
    [line |-> line, what |-> what, name |-> name, n |-> n]

Analyzer0 ==
    [assigned |-> {}, used |-> {}, mutable_defaults |-> <<>>,
     unreachable |-> <<>>, line_count |-> 0]

\* for target in node.targets: if isinstance(target, ast.Name): add its id.
visit_Assign(n, st) ==
    [st EXCEPT !.assigned =
        @ \cup {n.targets[k].ids[1] :
                   k \in {m \in 1..Len(n.targets) : n.targets[m].kind = "Name"}}]

\* Name nodes of the tree are the names in Load context; the names in Store
\* context are the ids of the assignment targets.
visit_Name(n, st) == [st EXCEPT !.used = @ \cup {n.name}]

MutableLiterals == {"List", "Dict", "Set"}

RECURSIVE FlagDefaults(_, _, _, _)
FlagDefaults(ds, line, fname, out) ==
    IF ds = <<>> THEN out
    ELSE FlagDefaults(Tail(ds), line, fname,
            IF Head(ds) \in MutableLiterals
            THEN Append(out, Finding(line, "Mutable default arg", fname, 0))
            ELSE out)

\* len(node.body): the statements of the body, a run of copies counted in full.
RECURSIVE SumRep(_, _)
SumRep(t, S) ==
    IF S = {} THEN 0
    ELSE LET j == CHOOSE x \in S : TRUE IN t[j].rep + SumRep(t, S \ {j})

BodyLen(t, i) == SumRep(t, Children(t, i))

\* for d in node.args.defaults: the positional defaults only.
visit_FunctionDef(t, i, st) ==
    [st EXCEPT !.line_count = @ + BodyLen(t, i),
               !.mutable_defaults = FlagDefaults(t[i].defaults, i, t[i].name, @)]

\* Mutant: only the literal True counts as a constant condition.
ConstantConditionTrueOnly(test) ==
    test.t # "expr" /\ PyEq(test, PyBool(TRUE))

\* isinstance(node.test, ast.Constant) and node.test.value in (True, False)
ConstantCondition(test) ==
    test.t # "expr" /\ (PyEq(test, PyBool(TRUE)) \/ PyEq(test, PyBool(FALSE)))

visit_If(i, n, st) ==
    IF ConstantCondition(n.val)
    THEN [st EXCEPT !.unreachable = Append(@, Finding(i, "Unreachable branch", "", 0))]
    ELSE st

\* NodeVisitor.visit: the handler of the node's kind, each of which ends in
\* generic_visit; a kind without handler goes to generic_visit directly.
RECURSIVE SemVisit(_, _, _)
RECURSIVE generic_visit(_, _, _)
SemVisit(t, i, st) ==
    LET n == t[i]
        st1 == CASE n.kind = "Assign" -> visit_Assign(n, st)
                 [] n.kind = "Name" -> visit_Name(n, st)
                 [] n.kind = "FunctionDef" -> visit_FunctionDef(t, i, st)
                 [] n.kind = "If" -> visit_If(i, n, st)
                 [] OTHER -> st
    IN generic_visit(t, SetToSeq(Children(t, i)), st1)

generic_visit(t, cs, st) ==
    IF cs = <<>> THEN st
    ELSE generic_visit(t, Tail(cs), SemVisit(t, Head(cs), st))

Analyze(t) == generic_visit(t, SetToSeq(TopLevel(t)), Analyzer0)

\* The orders in which a Python set of names can be iterated.
Orderings(S) ==
    {s \in [1..Cardinality(S) -> S] : \A a, b \in 1..Cardinality(S) : s[a] = s[b] => a = b}

\* The results analyze_semantics can return: the unused names in an order of
\* the set, then the mutable defaults, then the unreachable branches.
analyze_semantics(src) ==
    IF ~src.ok THEN {<<>>}
    ELSE LET a == Analyze(src.tree)
         IN {[k \in 1..Len(o) |-> Finding(0, "Variable defined but never used", o[k], 0)]
                \o a.mutable_defaults \o a.unreachable :
             o \in Orderings(a.assigned \ a.used)}

\* Specification of the semantic analyzer alone.
SemNodes ==
    {FunctionDef("f", d, k) :
        d \in {<<>>, <<"List">>, <<"Constant", "Dict">>}, k \in {<<>>, <<"Set">>}}
    \cup {If(test, 1) : test \in {PyBool(TRUE), PyBool(FALSE), PyInt(1), ExprTest}}
    \cup {Assign(ts) : ts \in {<<NameTarget("x")>>, <<NameTarget("x"), NameTarget("y")>>,
                               <<TupleTarget(<<"x", "y">>)>>, <<AttributeTarget>>}}
    \cup {Name("x"), Name("y"), Constant(PyInt(1)), Pass(1)}

InitSem == Idle(Blank(PlainText))

ComposeSem == Compose(SemNodes, MaxNodesSem)

AnalyzeSemantics ==
    /\ pc = "edit"
    /\ Complete
    /\ semantics' \in analyze_semantics(code)
    /\ calls' = calls \cup {"analyze_semantics"}
    /\ pc' = "done"
    /\ UNCHANGED <<others, code, syntax, algo, smells, delegated, static_results,
                   security_results, response>>

NextSem == ComposeSem \/ AnalyzeSemantics

SpecSem == InitSem /\ [][NextSem]_vars

Analyzed == pc = "done" /\ code.ok /\ "analyze_semantics" \in calls

\* Number of entries of a list of findings that equal a given finding.
CountOf(fs, f) == Cardinality({k \in 1..Len(fs) : fs[k] = f})

\* The names bound by the assignments of a tree (plain targets and the names
\* of tuple targets) and the names it reads.
AssignedNames(t) ==
    UNION {UNION {Range(t[i].targets[k].ids) : k \in 1..Len(t[i].targets)} :
             i \in {j \in 1..Len(t) : t[j].kind = "Assign"}}

ReadNames(t) == {t[i].name : i \in {j \in 1..Len(t) : t[j].kind = "Name"}}

\* C7: a name gets an unused-binding finding iff it is an assignment target
\* somewhere in the tree and read nowhere, and then exactly one.
\* (Violated: the names of a tuple target are never collected.)
C7_UnusedBindings ==
    Analyzed =>
        \A x \in {"x", "y"} :
            CountOf(semantics, Finding(0, "Variable defined but never used", x, 0)) =
                (IF x \in AssignedNames(code.tree) \ ReadNames(code.tree) THEN 1 ELSE 0)

\* C8: every list, set or dict literal among a function's defaults,
\* positional and keyword-only, is flagged at the function's line.
\* (Violated: the keyword-only defaults are not inspected.)
C8_MutableDefaults ==
    Analyzed =>
        \A i \in 1..Len(code.tree) :
            code.tree[i].kind = "FunctionDef" =>
                LET ds == code.tree[i].defaults \o code.tree[i].kw_defaults
                IN CountOf(semantics, Finding(i, "Mutable default arg", code.tree[i].name, 0)) =
                     Cardinality({k \in 1..Len(ds) : ds[k] \in {"List", "Set", "Dict"}})

\* C9: every conditional whose test is the literal True or the literal False
\* gets exactly one unreachable-branch finding, wherever it stands.
C9_UnreachableBranches ==
    Analyzed =>
        \A i \in 1..Len(code.tree) :
            (code.tree[i].kind = "If" /\ code.tree[i].val \in {PyBool(TRUE), PyBool(FALSE)})
                => CountOf(semantics, Finding(i, "Unreachable branch", "", 0)) = 1

\* A literal-False conditional inside another conditional, reported once.
C9_Witness ==
    /\ Analyzed
    /\ \E i \in 1..Len(code.tree) :
          /\ code.tree[i].kind = "If" /\ code.tree[i].val = PyBool(FALSE)
          /\ \E a \in Ancestors(code.tree, i) : code.tree[a].kind = "If"
          /\ \E k \in 1..Len(semantics) :
                semantics[k].what = "Unreachable branch" /\ semantics[k].line = i

-----------------------------------------------------------------------------
(* static_agent.py: detect_code_smells                                     *)

LongFunction == 40
ManyIfs == 5
LargeClass == 100
MagicNumber == 1000

\* Copies of node j inside one copy of the subtree of node i.
RECURSIVE Product(_, _)
Product(t, S) ==
    IF S = {} THEN 1
    ELSE LET j == CHOOSE x \in S : TRUE IN t[j].rep * Product(t, S \ {j})

Copies(t, i, j) == Product(t, (Ancestors(t, j) \cap Sub(t, i)) \cup {j})

RECURSIVE SumCopies(_, _, _)
SumCopies(t, i, S) ==
    IF S = {} THEN 0
    ELSE LET j == CHOOSE x \in S : TRUE IN Copies(t, i, j) + SumCopies(t, i, S \ {j})

\* sum(isinstance(n, ast.If) for n in ast.walk(node))
IfCount(t, i) == SumCopies(t, i, {j \in Sub(t, i) : t[j].kind = "If"})

\* Mutant: the length threshold is reached, not exceeded.
TooLongAt(body_len) == body_len >= LongFunction

TooLong(body_len) == body_len > LongFunction
DeeplyNested(ifs) == ifs > 0 /\ ifs > ManyIfs
IsLargeClass(body_len) == body_len > LargeClass
\* isinstance(node.value, (int, float)) and abs(node.value) > 1000; a bool is
\* an int.
IsMagic(value) == IsNumber(value) /\ Abs(value.v) > MagicNumber

SmellsOf(t, i) ==
    LET n == t[i]
    IN (IF n.kind = "FunctionDef" /\ TooLong(BodyLen(t, i))
        THEN <<Finding(i, "too long", n.name, BodyLen(t, i))>> ELSE <<>>)
       \o (IF n.kind = "FunctionDef" /\ DeeplyNested(IfCount(t, i))
           THEN <<Finding(i, "deeply nested", n.name, ManyIfs)>> ELSE <<>>)
       \o (IF n.kind = "ClassDef" /\ IsLargeClass(BodyLen(t, i))
           THEN <<Finding(i, "Large class", n.name, 0)>> ELSE <<>>)
       \o (IF n.kind = "Constant" /\ IsMagic(n.val)
           THEN <<Finding(i, "Magic number", "", n.val.v)>> ELSE <<>>)

RECURSIVE SmellsAlong(_, _)
SmellsAlong(t, w) ==
    IF w = <<>> THEN <<>> ELSE SmellsOf(t, Head(w)) \o SmellsAlong(t, Tail(w))

\* for node in ast.walk(tree)
detect_code_smells(src) ==
    IF ~src.ok THEN <<>> ELSE SmellsAlong(src.tree, WalkModule(src.tree))

\* Specification of the smell detector alone. Runs of copies stand for the
\* long bodies: Pass(40) is forty statements, If(test, 5) five conditionals.
SmellNodes ==
    {FunctionDef("f", <<>>, <<>>), ClassDef("C"),
     If(ExprTest, 1), If(ExprTest, ManyIfs),
     Pass(1), Pass(LongFunction), Pass(LargeClass),
     Constant(PyInt(MagicNumber)), Constant(PyInt(MagicNumber + 1)),
     Constant(PyFloat(MagicNumber + 1)), Constant(PyStr)}

InitSmell == Idle(Blank(PlainText))

ComposeSmell == Compose(SmellNodes, MaxNodesSmell)

DetectSmells ==
    /\ pc = "edit"
    /\ Complete
    /\ smells' = detect_code_smells(code)
    /\ calls' = calls \cup {"detect_code_smells"}
    /\ pc' = "done"
    /\ UNCHANGED <<others, code, syntax, algo, semantics, delegated, static_results,
                   security_results, response>>

NextSmell == ComposeSmell \/ DetectSmells

SpecSmell == InitSmell /\ [][NextSmell]_vars

Smelled == pc = "done" /\ code.ok /\ "detect_code_smells" \in calls

-----------------------------------------------------------------------------
(* static_agent.py: check_syntax_and_indentation                           *)

Issue(line, message, severity) ==
    [line |-> line, message |-> message, severity |-> severity]

\* Mutant: the mixed-indentation finding is given the severity High.
RECURSIVE MixedIndentationHigh(_, _)
MixedIndentationHigh(lines, i) ==
    IF i > Len(lines) THEN <<>>
    ELSE (IF lines[i].tab /\ lines[i].sp
          THEN <<Issue(i, "Mixed indentation (tabs and spaces).", "High")>>
          ELSE <<>>) \o MixedIndentationHigh(lines, i + 1)

\* if "\t" in line and line.startswith(" "), line by line
RECURSIVE MixedIndentation(_, _)
MixedIndentation(lines, i) ==
    IF i > Len(lines) THEN <<>>
    ELSE (IF lines[i].tab /\ lines[i].sp
          THEN <<Issue(i, "Mixed indentation (tabs and spaces).", "Medium")>>
          ELSE <<>>) \o MixedIndentation(lines, i + 1)

\* The indentation scan runs first; a compile error adds its finding to the
\* list and makes the result fatal.
check_syntax_and_indentation(src) ==
    LET issues == MixedIndentation(src.lines, 1)
    IN IF ~src.ok
       THEN [syntax_issues |-> Append(issues, Issue(src.errline, "SyntaxError", "High")),
             fatal |-> TRUE]
       ELSE [syntax_issues |-> issues, fatal |-> FALSE]

-----------------------------------------------------------------------------
(* security_agent.py: scan_security_issues                                 *)

SecurityIssue(line, severity, message) ==
    [line |-> line, severity |-> severity, message |-> message]

RECURSIVE Dedupe(_, _, _)
Dedupe(all_issues, seen, deduped) ==
    IF all_issues = <<>> THEN deduped
    ELSE LET issue == Head(all_issues)
             key == <<issue.line, issue.message>>
         IN IF key \notin seen
            THEN Dedupe(Tail(all_issues), seen \cup {key}, Append(deduped, issue))
            ELSE Dedupe(Tail(all_issues), seen, deduped)

\* severity_order.get(...): 0 stands for None, the key of an unknown label.
SeverityKey(issue) ==
    CASE issue.severity = "High" -> 1
      [] issue.severity = "Medium" -> 2
      [] issue.severity = "Low" -> 3
      [] issue.severity = "Info" -> 4
      [] OTHER -> 0

\* Mutant: an issue is placed before the issues of the same key (the sort is
\* not stable).
RECURSIVE InsertByKeyUnstable(_, _)
InsertByKeyUnstable(sorted, issue) ==
    IF sorted = <<>> THEN <<issue>>
    ELSE IF SeverityKey(sorted[Len(sorted)]) < SeverityKey(issue)
         THEN Append(sorted, issue)
         ELSE Append(InsertByKeyUnstable(SubSeq(sorted, 1, Len(sorted) - 1), issue),
                     sorted[Len(sorted)])

\* list.sort(key=...): stable insertion by key.
RECURSIVE InsertByKey(_, _)
InsertByKey(sorted, issue) ==
    IF sorted = <<>> THEN <<issue>>
    ELSE IF SeverityKey(sorted[Len(sorted)]) <= SeverityKey(issue)
         THEN Append(sorted, issue)
         ELSE Append(InsertByKey(SubSeq(sorted, 1, Len(sorted) - 1), issue),
                     sorted[Len(sorted)])

RECURSIVE SortBySeverity(_, _)
SortBySeverity(issues, sorted) ==
    IF issues = <<>> THEN sorted
    ELSE SortBySeverity(Tail(issues), InsertByKey(sorted, Head(issues)))

\* Comparing None with a number or with None raises TypeError: the sort
\* fails when two or more issues are sorted and one has no key.
SortRaises(deduped) ==
    Len(deduped) >= 2 /\ \E k \in 1..Len(deduped) : SeverityKey(deduped[k]) = 0

\* The result for the issues its three sources collected, or "raised".
scan_security_issues(all_issues) ==
    LET deduped == Dedupe(all_issues, {}, <<>>)
    IN IF SortRaises(deduped) THEN [raised |-> TRUE]
       ELSE [security_issues |-> SortBySeverity(deduped, <<>>)]

-----------------------------------------------------------------------------
(* main.py: review_code, with static_agent.py: run_static_analysis         *)

\* dict.get(key, default)
Get(d, key, default) == IF key \in DOMAIN d THEN d[key] ELSE default

\* Mutant: the fatal flag is looked up under another key.
IsFatalWrongKey(report) == Get(report, "is_fatal", FALSE)

\* syntax.get("fatal"), static_results.get("fatal")
IsFatal(report) == Get(report, "fatal", FALSE)

Downstream ==
    {"run_flake8", "run_radon_metrics", "estimate_big_o_complexity",
     "analyze_semantics", "detect_code_smells", "scan_security_issues",
     "generate_review"}

RunNodes ==
    {FunctionDef("f", <<>>, <<>>), Simple("For"), Assign(<<NameTarget("x")>>),
     Constant(PyInt(MagicNumber + 1)), Pass(1)}

Init == Idle(Blank(Texts(MaxLines)))

ComposeRun == Compose(RunNodes, MaxNodesRun)

\* An exception leaves run_static_analysis and review_code: the request
\* ends in a server error.
Raise ==
    /\ pc' = "done"
    /\ response' = [status |-> 500]

\* review_code calls run_static_analysis, which checks the syntax first and
\* returns at once when the result is fatal.
CheckSyntax ==
    /\ pc = "edit"
    /\ Complete
    /\ calls' = calls \cup {"review_code", "run_static_analysis",
                             "check_syntax_and_indentation"}
    /\ syntax' = check_syntax_and_indentation(code)
    /\ IF IsFatal(syntax')
       THEN /\ static_results' = [syntax_issues |-> syntax'.syntax_issues, fatal |-> TRUE]
            /\ pc' = "returned"
       ELSE /\ static_results' = static_results
            /\ pc' = "flake8"
    /\ UNCHANGED <<others, code, algo, semantics, smells, delegated, security_results, response>>

\* run_flake8: flake8 cannot be started (the exception propagates), exits
\* with a bad status, or answers.
RunFlake8 ==
    /\ pc = "flake8"
    /\ calls' = calls \cup {"run_flake8"}
    /\ \/ /\ Raise
          /\ delegated' = delegated
       \/ /\ \E style \in {[style_issues |-> 0, error |-> "stderr"],
                           [style_issues |-> 0], [style_issues |-> 1]} :
                delegated' = [style |-> style]
          /\ pc' = "radon"
          /\ response' = response
    /\ UNCHANGED <<others, code, syntax, algo, semantics, smells, static_results, security_results>>

RECURSIVE SumSeq(_)
SumSeq(xs) == IF xs = <<>> THEN 0 ELSE Head(xs) + SumSeq(Tail(xs))

\* run_radon_metrics: radon cannot be started or its output is no JSON (the
\* exception propagates), or it answers with the functions' complexities.
RunRadon ==
    /\ pc = "radon"
    /\ calls' = calls \cup {"run_radon_metrics"}
    /\ \/ /\ Raise
          /\ delegated' = delegated
       \/ /\ \E cs \in {<<>>, <<1>>, <<1, 4>>} :
                delegated' = [style |-> delegated.style,
                              radon |-> [complexity |-> cs,
                                         maintainability_index |-> 100 - SumSeq(cs)]]
          /\ pc' = "algo"
          /\ response' = response
    /\ UNCHANGED <<others, code, syntax, algo, semantics, smells, static_results, security_results>>

RunBigO ==
    /\ pc = "algo"
    /\ calls' = calls \cup {"estimate_big_o_complexity"}
    /\ algo' = estimate_big_o_complexity(code)
    /\ pc' = "semantics"
    /\ UNCHANGED <<others, code, syntax, semantics, smells, delegated, static_results,
                   security_results, response>>

RunSemantics ==
    /\ pc = "semantics"
    /\ calls' = calls \cup {"analyze_semantics"}
    /\ semantics' \in analyze_semantics(code)
    /\ pc' = "smells"
    /\ UNCHANGED <<others, code, syntax, algo, smells, delegated, static_results,
                   security_results, response>>

\* Mutant: the sum of the scores is not divided by their number.
MeanSumOnly(xs) == IF xs = <<>> THEN <<0, 1>> ELSE <<SumSeq(xs), 1>>

\* statistics.mean(complexities) if complexities else 0, as the fraction
\* <<sum, count>>.
Mean(xs) == IF xs = <<>> THEN <<0, 1>> ELSE <<SumSeq(xs), Len(xs)>>

\* detect_code_smells, then the summary and the merged report.
RunSmells ==
    /\ pc = "smells"
    /\ calls' = calls \cup {"detect_code_smells"}
    /\ smells' = detect_code_smells(code)
    /\ static_results' =
          [syntax_analysis |-> syntax,
           style |-> delegated.style,
           complexity |-> delegated.radon.complexity,
           maintainability_index |-> delegated.radon.maintainability_index,
           algorithmic_complexity |-> algo,
           semantic_issues |-> semantics,
           code_smells |-> smells',
           summary |->
               [functions |-> Len(delegated.radon.complexity),
                avg_complexity |-> Mean(delegated.radon.complexity),
                maintainability_index |-> delegated.radon.maintainability_index,
                estimated_time_complexity |-> algo.estimate,
                estimated_space_complexity |-> algo.space,
                high_severity_warnings |->
                    SelectSeq(syntax.syntax_issues, LAMBDA i : i.severity = "High")]]
    /\ pc' = "returned"
    /\ UNCHANGED <<others, code, syntax, algo, semantics, delegated, security_results, response>>

\* if static_results.get("fatal"): the fixed answer, nothing else is run.
ReturnFatal ==
    /\ pc = "returned"
    /\ IsFatal(static_results)
    /\ response' = [status |-> 200, static_analysis |-> static_results,
                    security_analysis |-> [empty |-> TRUE],
                    llm_review |-> "Code could not be analyzed"]
    /\ pc' = "done"
    /\ UNCHANGED <<others, code, calls, syntax, algo, semantics, smells, delegated,
                   static_results, security_results>>

\* The issues the text patterns, the AST visitor and bandit can supply
\* (bandit's labels are upper case).
CollectedIssues ==
    LET pool == {SecurityIssue(1, "High", "eval"), SecurityIssue(1, "Medium", "eval"),
                 SecurityIssue(2, "Info", "import"), SecurityIssue(2, "HIGH", "B307")}
    IN UNION {[1..k -> pool] : k \in 0..2}

ScanSecurity ==
    /\ pc = "returned"
    /\ ~IsFatal(static_results)
    /\ calls' = calls \cup {"scan_security_issues"}
    /\ \E all_issues \in CollectedIssues :
          LET r == scan_security_issues(all_issues)
          IN /\ collected' = all_issues
             /\ IF "raised" \in DOMAIN r
                THEN Raise /\ security_results' = security_results
                ELSE /\ security_results' = r
                     /\ pc' = "llm"
                     /\ response' = response
    /\ UNCHANGED <<previous, scans, temp_scan, tmp_files, code, syntax, algo, semantics, smells,
                   delegated, static_results>>

\* generate_review: the client is missing or the call fails (the exception
\* propagates), or the answer is parsed, or kept as raw text.
GenerateReview ==
    /\ pc = "llm"
    /\ calls' = calls \cup {"generate_review"}
    /\ \/ Raise
       \/ /\ \E review \in {"parsed", "raw_text"} :
                response' = [status |-> 200, static_analysis |-> static_results,
                             security_analysis |-> security_results,
                             llm_review |-> review]
          /\ pc' = "done"
    /\ UNCHANGED <<others, code, syntax, algo, semantics, smells, delegated, static_results,
                   security_results>>

Next ==
    \/ ComposeRun
    \/ CheckSyntax
    \/ RunFlake8
    \/ RunRadon
    \/ RunBigO
    \/ RunSemantics
    \/ RunSmells
    \/ ReturnFatal
    \/ ScanSecurity
    \/ GenerateReview

Spec == Init /\ [][Next]_vars

SyntaxChecked == "check_syntax_and_indentation" \in calls

\* C1: once check_syntax_and_indentation has reported fatal, no downstream
\* step is invoked in that run, and the report that is returned carries the
\* syntax findings alone.
C1_FatalSkipsDownstream ==
    (SyntaxChecked /\ syntax.fatal) =>
        /\ calls \cap Downstream = {}
        /\ algo = NoAlgo /\ semantics = NoSemantics /\ smells = NoSmells
        /\ delegated = NoDelegated /\ security_results = NoReport
        /\ pc \in {"returned", "done"}
        /\ DOMAIN static_results = {"syntax_issues", "fatal"}
        /\ pc = "done" =>
              /\ response.status = 200
              /\ response.static_analysis = static_results
              /\ response.security_analysis = [empty |-> TRUE]

\* A run on a text that does not compile has returned its answer.
C1_Witness ==
    /\ SyntaxChecked /\ syntax.fatal
    /\ pc = "done" /\ response.status = 200

\* C2: for an input that fails to parse the syntax check returns fatal with
\* exactly one finding, of severity High, whatever the raw lines hold.
\* (Violated: the mixed-indentation findings of the raw lines come first.)
C2_OneHighFinding ==
    (SyntaxChecked /\ ~code.ok) =>
        /\ syntax.fatal
        /\ Len(syntax.syntax_issues) = 1
        /\ syntax.syntax_issues[1].severity = "High"

-----------------------------------------------------------------------------
(* The summary of run_static_analysis                                      *)

\* run_static_analysis has built a report with a summary (a non-fatal one).
NonFatalReport == "summary" \in DOMAIN static_results

\* C11: in every non-fatal report summary.functions is the number of the
\* delegated complexity entries, summary.avg_complexity is the sum of their
\* scores divided by their number, and 0 when there is none, and the two
\* estimated labels of the summary are the labels estimate_big_o_complexity
\* returns for the same input.
C11_Summary ==
    NonFatalReport =>
        LET summary == static_results.summary
            scores == delegated.radon.complexity
            avg == summary.avg_complexity
            big_o == estimate_big_o_complexity(code)
        IN /\ summary.functions = Len(scores)
           /\ avg[2] > 0
           /\ IF Len(scores) = 0 THEN avg[1] = 0
              ELSE avg[1] * Len(scores) = SumSeq(scores) * avg[2]
           /\ summary.estimated_time_complexity = big_o.estimate
           /\ summary.estimated_space_complexity = big_o.space

\* A report of two functions of complexity 1 and 4 on a text with one loop:
\* the average is 5/2.
C11_Witness ==
    /\ NonFatalReport
    /\ delegated.radon.complexity = <<1, 4>>
    /\ static_results.summary.functions = 2
    /\ static_results.summary.avg_complexity = <<5, 2>>
    /\ static_results.summary.estimated_time_complexity = "O(n)"
    /\ static_results.summary.estimated_space_complexity = "O(n)"

-----------------------------------------------------------------------------
(* Failures of the delegated calls                                         *)

\* The severity sort of the security scanner failed in this run.
SortFailed == SortRaises(Dedupe(collected, {}, <<>>))

\* C12: a failure of a delegated call (flake8, radon, bandit, the review
\* generator) never aborts the run: a run in which nothing else fails ends
\* with a report, and no exception reaches the caller of review_code.
\* (Violated: run_flake8, run_radon_metrics and generate_review let the
\* exception of a failed call propagate.)
C12_DelegateFailureDegrades ==
    (pc = "done" /\ ~SortFailed) =>
        /\ response.status = 200
        /\ "static_analysis" \in DOMAIN response

-----------------------------------------------------------------------------
(* Two runs on the same text                                               *)

\* The same text is analyzed once more (a later request, possibly served by
\* another process): the earlier result is kept for comparison.
AnalyzeAgain ==
    /\ pc = "done"
    /\ "analyze_semantics" \in calls
    /\ previous' = semantics
    /\ semantics' \in analyze_semantics(code)
    /\ pc' = "again"
    /\ UNCHANGED <<collected, scans, temp_scan, tmp_files, code, calls, syntax, algo, smells,
                   delegated, static_results, security_results, response>>

NextRepeat == ComposeSem \/ AnalyzeSemantics \/ AnalyzeAgain

SpecRepeat == InitSem /\ [][NextRepeat]_vars

\* C13: two runs on the same text give the same findings in the same order,
\* the unused-binding findings included.
\* (Violated: the unused names are reported in the iteration order of a set
\* of strings, which differs from one process to the next.)
C13_Deterministic ==
    pc = "again" => semantics = previous

-----------------------------------------------------------------------------
(* Concurrent requests: the temporary files of run_flake8 and of           *)
(* run_bandit_scan                                                          *)

\* The variables of the single run of the other specifications.
single == <<code, pc, calls, syntax, algo, semantics, smells, delegated,
            static_results, security_results, response, collected, previous>>

\* The texts that are posted, and what bandit reports for a text.
Posted == {"eval(x)", "import subprocess", "x = 1"}

BanditResults(text) ==
    CASE text = "eval(x)" -> <<SecurityIssue(1, "MEDIUM", "B307")>>
      [] text = "import subprocess" -> <<SecurityIssue(1, "LOW", "B404")>>
      [] OTHER -> <<>>

\* A request arrives and its run starts, next to the runs in flight.
Request ==
    /\ Len(scans) < MaxRequests
    /\ \E text \in Posted :
          scans' = Append(scans, [at |-> "flake8", code |-> text, temp_path |-> 0,
                                  style |-> "", issues |-> <<>>])
    /\ UNCHANGED <<temp_scan, tmp_files, single>>

\* run_flake8: NamedTemporaryFile(delete=False) creates a file under a name
\* that does not exist yet, and the text is written to it.
Flake8Write(r) ==
    /\ scans[r].at = "flake8"
    /\ \E n \in TempNames :
          /\ tmp_files[n] = NoFile
          /\ tmp_files' = [tmp_files EXCEPT ![n] = scans[r].code]
          /\ scans' = [scans EXCEPT ![r].at = "flake8_run", ![r].temp_path = n]
    /\ UNCHANGED <<temp_scan, single>>

\* flake8 reads the file at temp_path.
Flake8Run(r) ==
    /\ scans[r].at = "flake8_run"
    /\ scans' = [scans EXCEPT ![r].at = "flake8_remove",
                              ![r].style = tmp_files[scans[r].temp_path]]
    /\ UNCHANGED <<temp_scan, tmp_files, single>>

\* finally: os.remove(temp_path)
Flake8Remove(r) ==
    /\ scans[r].at = "flake8_remove"
    /\ tmp_files' = [tmp_files EXCEPT ![scans[r].temp_path] = NoFile]
    /\ scans' = [scans EXCEPT ![r].at = "bandit"]
    /\ UNCHANGED <<temp_scan, single>>

\* run_bandit_scan: open("temp_scan.py", "w") and f.write(code).
BanditWrite(r) ==
    /\ scans[r].at = "bandit"
    /\ temp_scan' = scans[r].code
    /\ scans' = [scans EXCEPT ![r].at = "bandit_run"]
    /\ UNCHANGED <<tmp_files, single>>

\* bandit reads temp_scan.py; nothing is reported when the file is missing.
BanditRun(r) ==
    /\ scans[r].at = "bandit_run"
    /\ scans' = [scans EXCEPT ![r].at = "bandit_exists",
                              ![r].issues = IF temp_scan = NoFile THEN <<>>
                                            ELSE BanditResults(temp_scan)]
    /\ UNCHANGED <<temp_scan, tmp_files, single>>

\* finally: if os.path.exists("temp_scan.py")
BanditExists(r) ==
    /\ scans[r].at = "bandit_exists"
    /\ scans' = [scans EXCEPT ![r].at = IF temp_scan = NoFile THEN "done"
                                        ELSE "bandit_remove"]
    /\ UNCHANGED <<temp_scan, tmp_files, single>>

\* os.remove("temp_scan.py"): FileNotFoundError when the file is gone.
BanditRemove(r) ==
    /\ scans[r].at = "bandit_remove"
    /\ IF temp_scan = NoFile
       THEN /\ scans' = [scans EXCEPT ![r].at = "raised"]
            /\ temp_scan' = temp_scan
       ELSE /\ scans' = [scans EXCEPT ![r].at = "done"]
            /\ temp_scan' = NoFile
    /\ UNCHANGED <<tmp_files, single>>

InitConcurrent == Idle(Blank(PlainText))

NextConcurrent ==
    \/ Request
    \/ \E r \in 1..Len(scans) : Flake8Write(r)
    \/ \E r \in 1..Len(scans) : Flake8Run(r)
    \/ \E r \in 1..Len(scans) : Flake8Remove(r)
    \/ \E r \in 1..Len(scans) : BanditWrite(r)
    \/ \E r \in 1..Len(scans) : BanditRun(r)
    \/ \E r \in 1..Len(scans) : BanditExists(r)
    \/ \E r \in 1..Len(scans) : BanditRemove(r)

SpecConcurrent == InitConcurrent /\ [][NextConcurrent]_vars

\* The other runs were given other texts than run r.
DifferentInputs(r) ==
    \A q \in 1..Len(scans) : q # r => scans[q].code # scans[r].code

\* C14: runs on different inputs that interleave share no mutable state:
\* the file a run has written still holds its own text while the run uses
\* it, the run ends without an exception, and what flake8 and bandit were
\* given and report is what they report for the run's own text.
\* (Violated: every run writes, scans and removes the same "temp_scan.py".)
C14_RunsIsolated ==
    \A r \in 1..Len(scans) :
        DifferentInputs(r) =>
            /\ scans[r].at # "raised"
            /\ scans[r].at \in {"flake8_run"} =>
                  tmp_files[scans[r].temp_path] = scans[r].code
            /\ scans[r].at \in {"bandit_run"} => temp_scan = scans[r].code
            /\ scans[r].at = "done" =>
                  /\ scans[r].style = scans[r].code
                  /\ scans[r].issues = BanditResults(scans[r].code)

-----------------------------------------------------------------------------
(* security_agent.py: scan_security_issues called on its own               *)

\* Issues the three sources can supply: the text patterns and the AST
\* visitor label them High, Medium, Low or Info, bandit HIGH, MEDIUM or LOW.
SecurityPool ==
    {SecurityIssue(1, "High", "eval"), SecurityIssue(1, "Medium", "eval"),
     SecurityIssue(2, "Medium", "shell"), SecurityIssue(3, "Low", "pickle"),
     SecurityIssue(3, "Info", "import"), SecurityIssue(4, "High", "exec"),
     SecurityIssue(2, "HIGH", "B307")}

InitSecurity == Idle(Blank(PlainText))

\* all_issues.extend / all_issues.append: a source supplies one more issue.
CollectIssue ==
    /\ pc = "edit"
    /\ Len(collected) < MaxIssues
    /\ \E issue \in SecurityPool : collected' = Append(collected, issue)
    /\ UNCHANGED <<previous, scans, temp_scan, tmp_files, code, pc, calls, syntax,
                   algo, semantics, smells, delegated, static_results,
                   security_results, response>>

\* The de-duplication and the sort: the list is returned, or the sort raises.
SortIssues ==
    /\ pc = "edit"
    /\ security_results' = scan_security_issues(collected)
    /\ calls' = calls \cup {"scan_security_issues"}
    /\ pc' = "done"
    /\ UNCHANGED <<others, code, syntax, algo, semantics, smells, delegated,
                   static_results, response>>

NextSecurity == CollectIssue \/ SortIssues

SpecSecurity == InitSecurity /\ [][NextSecurity]_vars

Scanned == pc = "done" /\ "scan_security_issues" \in calls

Returned == Scanned /\ "security_issues" \in DOMAIN security_results

\* The (line, message) pair of an issue, and the place where a pair is first
\* collected.
PairOf(issue) == <<issue.line, issue.message>>

FirstCollected(pair) ==
    CHOOSE i \in 1..Len(collected) :
        /\ PairOf(collected[i]) = pair
        /\ \A j \in 1..(i - 1) : PairOf(collected[j]) # pair

SeverityRanks == <<"High", "Medium", "Low", "Info">>

\* C15: the list scan_security_issues returns is the stable severity sort of
\* the first-occurrence de-duplication of the collected issues: no two
\* returned issues share their (line, message) pair, every collected pair is
\* returned once as the issue that was collected first with it, High comes
\* before Medium before Low before Info, and issues of equal severity keep
\* their collection order.
C15_DedupedStableSort ==
    Returned =>
        LET result == security_results.security_issues
            R == 1..Len(result)
        IN /\ \A a, b \in R : a # b => PairOf(result[a]) # PairOf(result[b])
           /\ \A i \in 1..Len(collected) :
                 \E k \in R : PairOf(result[k]) = PairOf(collected[i])
           /\ \A k \in R :
                 /\ \E i \in 1..Len(collected) : PairOf(collected[i]) = PairOf(result[k])
                 /\ result[k] = collected[FirstCollected(PairOf(result[k]))]
           /\ \A a, b \in R : \A i, j \in 1..Len(SeverityRanks) :
                 (a < b /\ i < j) =>
                     ~(result[a].severity = SeverityRanks[j]
                       /\ result[b].severity = SeverityRanks[i])
           /\ \A a, b \in R :
                 (a < b /\ result[a].severity = result[b].severity) =>
                     FirstCollected(PairOf(result[a])) < FirstCollected(PairOf(result[b]))

\* Three issues, the second with the pair of the first and the third of a
\* higher severity: the duplicate is dropped, although it is the more severe
\* one, and the High issue moves up.
C15_Witness ==
    /\ Returned
    /\ collected = <<SecurityIssue(1, "Medium", "eval"), SecurityIssue(1, "High", "eval"),
                     SecurityIssue(4, "High", "exec")>>
    /\ security_results.security_issues =
          <<SecurityIssue(4, "High", "exec"), SecurityIssue(1, "Medium", "eval")>>

-----------------------------------------------------------------------------
(* The depth of the complexity traversal                                   *)

\* The loops that enclose node j of a tree.
EnclosingLoops(t, j) == {i \in Ancestors(t, j) : IsLoop(t[i])}

\* C16: the depth of the complexity traversal is the loop-nesting depth:
\* non-loop nodes between two loops leave it unchanged, so the depth written
\* in the evidence of each loop is 1 + the number of the loops around it.
\* (Violated: below a non-loop node the depth is doubled.)
C16_DepthIsLoopNesting ==
    Estimated =>
        \A k \in 1..Len(algo.details) :
            LET e == algo.details[k]
            IN e.what = "Loop" =>
                   e.depth = 1 + Cardinality(EnclosingLoops(code.tree, e.line))

-----------------------------------------------------------------------------
(* Comprehensions in the complexity estimate                               *)

CompNodes ==
    {Simple("ListComp"), Simple("SetComp"), Simple("DictComp"),
     Assign(<<NameTarget("x")>>), Name("y"), FunctionDef("f", <<>>, <<>>), Pass(1)}

InitComp == Idle(Blank(PlainText))

ComposeComp == Compose(CompNodes, MaxNodesBigO)

NextComp == ComposeComp \/ EstimateBigO

SpecComp == InitComp /\ [][NextComp]_vars

\* The list, set and dict comprehensions of a tree.
Comprehensions(t) ==
    {i \in 1..Len(t) : t[i].kind \in {"ListComp", "SetComp", "DictComp"}}

\* C17: the counter comp counts every list, set and dict comprehension: an
\* input whose only notable constructs are comprehensions of any of the
\* three kinds (no loop, no call) is estimated time "O(n)" and space "O(n)",
\* with one evidence string per comprehension.
\* (Violated: only list comprehensions are counted.)
C17_EveryComprehensionCounts ==
    (/\ Estimated
     /\ Comprehensions(code.tree) # {}
     /\ \A i \in 1..Len(code.tree) : ~IsLoop(code.tree[i]) /\ code.tree[i].kind # "Call")
        => /\ algo.estimate = "O(n)"
           /\ algo.space = "O(n)"
           /\ Len(algo.details) = Cardinality(Comprehensions(code.tree))

-----------------------------------------------------------------------------
(* The High findings of a report with a summary                            *)

\* C18: in every report that run_static_analysis returns with a summary,
\* summary.high_severity_warnings is empty: a High syntax finding is made
\* only on the fatal path, which returns before a summary is built.
C18_NoHighWarnings ==
    NonFatalReport =>
        /\ static_results.summary.high_severity_warnings = <<>>
        /\ \A k \in 1..Len(static_results.syntax_analysis.syntax_issues) :
              static_results.syntax_analysis.syntax_issues[k].severity # "High"

\* A report with a summary on a text that has a mixed-indentation finding.
C18_Witness ==
    /\ NonFatalReport
    /\ Len(static_results.syntax_analysis.syntax_issues) > 0
    /\ static_results.summary.high_severity_warnings = <<>>

-----------------------------------------------------------------------------
(* The severity sort and unknown labels; the tests of conditionals         *)

\* C19: scan_security_issues returns a sorted result for every list of
\* issues its sources can supply: the severity sort never fails, also when
\* two or more issues are sorted and one has a label outside High, Medium,
\* Low and Info, such as the upper-case label of a bandit result.
\* (Violated: an unknown label has the sort key None, which cannot be
\* compared.)
C19_SortNeverFails ==
    Scanned =>
        /\ "security_issues" \in DOMAIN security_results
        /\ "raised" \notin DOMAIN security_results

\* C20: an unreachable-branch finding is emitted only for a conditional whose
\* test is the literal True or the literal False, never for another constant
\* (1, 0, a float, a string, None) or for a test that is no constant.
\* (Violated: 1 and 0 are equal to True and False.)
C20_OnlyBooleanLiterals ==
    Analyzed =>
        \A k \in 1..Len(semantics) :
            semantics[k].what = "Unreachable branch" =>
                /\ code.tree[semantics[k].line].kind = "If"
                /\ code.tree[semantics[k].line].val \in {PyBool(TRUE), PyBool(FALSE)}

====
